---- MODULE Spec2Model ----
(***************************************************************************)
(* The deployment orchestrator of grepx-orchestrator as a state machine.   *)
(*                                                                         *)
(* Two scripts are modelled, selected by the variable script:              *)
(*   "flat": src/orchestrator.py              (repos/, libs/, logs/ beside *)
(*           the script, log() appends to the daily log file itself)       *)
(*   "pkg" : src/orchestrator/orchestrator.py (projects in ROOT_DIR, the   *)
(*           logging module, and the --install-libs mode)                  *)
(*                                                                         *)
(* The state is the filesystem (directories, requirements.txt files, the   *)
(* log file), the position of the running process, and the record of what  *)
(* the running invocation did (commands spawned, log entries written).     *)
(* The outcome of every subprocess and the content a clone or pull brings  *)
(* are inputs, drawn with \E.  Commands of a manifest are arbitrary shell  *)
(* lines; the model takes them not to touch the tracked directories.       *)
(***************************************************************************)
EXTENDS Naturals, Sequences, FiniteSets

VARIABLES
    script,     \* which of the two scripts runs
    config,     \* which orchestrator.yaml is loaded
    dirs,       \* existing directories, as paths relative to the root
    reqFiles,   \* directories that hold a requirements.txt
    logFile,    \* whether the daily log file exists
    pc,         \* "idle" (no process), "main", "deps", "libs"
    runs,       \* invocations started so far
    mode,       \* the branch of main the running invocation took
    queue,      \* items main's loop has still to process
    depIdx,     \* position in the current project's dependencies list
    exitCode,   \* exit code of the last finished invocation
    cmds,       \* subprocesses spawned by the current call, in order
    logs,       \* log entries written by the current call, in order
    before,     \* the directories at the start of the current call
    manifest,   \* repo_specific_packages.txt as the current call found it
    depCalls,   \* the install_dependency calls of the current call
    deployed,   \* the deploy_project calls of this invocation that returned
    depSyncs    \* the dependency syncs of this invocation

vars == <<script, config, dirs, reqFiles, logFile, pc, runs, mode, queue,
          depIdx, exitCode, cmds, logs, before, manifest, depCalls, deployed,
          depSyncs>>

(***************************************************************************)
(* Bounds                                                                  *)
(***************************************************************************)
\* invocations of the orchestrator in one behaviour
MaxRuns == 2
\* lines of repo_specific_packages.txt, in Spec and in SpecManifest
MaxLines == 1
MaxManifestLines == 3

(***************************************************************************)
(* Paths                                                                   *)
(***************************************************************************)
Root == <<>>
REPOS_DIR == <<"repos">>
LIBS_DIR == <<"libs">>
LOG_DIR == <<"logs">>
NoCwd == <<"<cwd>">>

\* Path.parent
Parent(path) == IF path = <<>> THEN <<>> ELSE SubSeq(path, 1, Len(path) - 1)

\* The path and every ancestor of it: what mkdir(parents=True) and git
\* clone bring into existence.
WithParents(path) == { SubSeq(path, 1, n) : n \in 0..Len(path) }

\* Path.mkdir(exist_ok=True): the parent exists in every call the scripts make
Mkdir(path, ds) == ds \cup {path}

\* Path.mkdir(parents=True, exist_ok=True)
MkdirParents(path, ds) == ds \cup WithParents(path)

(***************************************************************************)
(* Configuration documents                                                 *)
(***************************************************************************)
Get(rec, key, default) == IF key \in DOMAIN rec THEN rec[key] ELSE default

\* app lists libx twice and a name that is no dependency; web shares libx;
\* liby is listed by no project and lives in a nested directory
ConfigShared ==
    [ projectOrder |-> <<"app", "web">>,
      projects |-> [ app |-> [ url |-> "u/app", branch |-> "dev",
                               dependencies |-> <<"libx", "ghost", "libx">> ],
                     web |-> [ url |-> "u/web",
                               dependencies |-> <<"libx">> ] ],
      dependencyOrder |-> <<"libx", "liby">>,
      dependencies |-> [ libx |-> [ url |-> "u/libx", path |-> <<"libx">>,
                                    requirements |-> TRUE ],
                         liby |-> [ url |-> "u/liby", branch |-> "dev",
                                    path |-> <<"nested", "liby">> ] ] ]

\* one project without a dependencies key, and no dependencies at all
ConfigBare ==
    [ projectOrder |-> <<"solo">>,
      projects |-> [ solo |-> [ url |-> "u/solo" ] ],
      dependencyOrder |-> <<>>,
      dependencies |-> <<>> ]

ConfigNames == {"shared", "bare"}

\* yaml.safe_load of the orchestrator.yaml the variable config names
Config ==
    IF config = "shared" THEN ConfigShared ELSE ConfigBare

\* config.get('projects', {}) and config.get('dependencies', {})
Projects == Config.projects
AllDeps == Config.dependencies

\* the values of --project tried ("": the flag is not given)
ProjectArgs == {"", "app", "solo", "nope"}

(***************************************************************************)
(* Manifest lines.  A line is the sequence of its characters, as the file  *)
(* iterator yields it: its content followed by the line terminator.        *)
(***************************************************************************)
Whitespace == {" ", "\n"}

RECURSIVE LStrip(_)
LStrip(s) == IF s # <<>> /\ Head(s) \in Whitespace THEN LStrip(Tail(s)) ELSE s

RECURSIVE RStrip(_)
RStrip(s) ==
    IF s # <<>> /\ s[Len(s)] \in Whitespace
    THEN RStrip(SubSeq(s, 1, Len(s) - 1))
    ELSE s

\* str.strip()
Strip(s) == RStrip(LStrip(s))

\* the test of the manifest loop, on the stripped line
IsCommandBlankOnly(line) == line # <<>>
IsCommand(line) == line # <<>> /\ Head(line) # "#"

Contents == { <<>>, <<" ">>, <<"#", "a">>, <<" ", "#", "a">>, <<"a">>,
              <<" ", "b">> }
Lines == { c \o <<"\n">> : c \in Contents }

\* the files repo_specific_packages.txt may be
ManifestFiles(maxLen) == UNION { [1..n -> Lines] : n \in 0..maxLen }

\* the stripped lines the loop runs, in file order
RECURSIVE ManifestCommands(_)
ManifestCommands(file) ==
    IF file = <<>> THEN <<>>
    ELSE LET line == Strip(Head(file))
         IN  (IF IsCommand(line) THEN <<line>> ELSE <<>>)
             \o ManifestCommands(Tail(file))

(***************************************************************************)
(* log / logger                                                            *)
(***************************************************************************)
\* 'OK' is a level of log() only; the logging module writes it with info()
OkLevel == IF script = "flat" THEN "OK" ELSE "INFO"

LogEntry(level, msg, about) == [level |-> level, msg |-> msg, about |-> about]

\* log() makes LOG_DIR on every call; setup_logging made it once in "pkg"
LogDirs(entries, ds) ==
    IF script = "flat" /\ entries # <<>> THEN Mkdir(LOG_DIR, ds) ELSE ds

\* both append the entry to the daily log file
LogWritten(entries) == logFile \/ entries # <<>>

(***************************************************************************)
(* run_cmd: one subprocess, recorded with its exit status                  *)
(***************************************************************************)
Cmd(tool, name, target, branch, url, cwd, quiet, ok) ==
    [tool |-> tool, name |-> name, target |-> target, branch |-> branch,
     url |-> url, cwd |-> cwd, quiet |-> quiet, ok |-> ok]

GitTools == {"git clone", "git pull"}

(***************************************************************************)
(* clone_or_update                                                         *)
(***************************************************************************)
SyncKindAlwaysClone(target_dir, ds) == "git clone"
\* target_dir.exists()
SyncKind(target_dir, ds) ==
    IF target_dir \in ds THEN "git pull" ELSE "git clone"

\* ok: the exit status of git; leftover: whether a failed clone leaves the
\* target directory behind.  The result: success, the commands spawned, the
\* entries logged, the directories afterwards.
CloneOrUpdateRetry(name, url, branch, target_dir, ds, ok, leftover) ==
    LET pull == Cmd("git pull", name, target_dir, branch, "origin",
                    target_dir, FALSE, ok)
        clone == Cmd("git clone", name, target_dir, branch, url, NoCwd,
                     FALSE, ok)
    IN  [ success |-> ok,
          cmds |-> IF SyncKind(target_dir, ds) = "git pull"
                   THEN (IF ok THEN <<pull>> ELSE <<pull, clone>>)
                   ELSE <<clone>>,
          logs |-> <<>>,
          dirs |-> IF ok THEN ds \cup WithParents(target_dir) ELSE ds ]
CloneOrUpdate(name, url, branch, target_dir, ds, ok, leftover) ==
    IF SyncKind(target_dir, ds) = "git pull"
    THEN [ success |-> ok,
           cmds |-> << Cmd("git pull", name, target_dir, branch, "origin",
                           target_dir, FALSE, ok) >>,
           logs |-> <<LogEntry("INFO", "Updating", name)>>
                    \o (IF ok THEN <<LogEntry(OkLevel, "updated", name)>>
                        ELSE <<>>),
           dirs |-> ds ]
    ELSE [ success |-> ok,
           cmds |-> << Cmd("git clone", name, target_dir, branch, url, NoCwd,
                           FALSE, ok) >>,
           logs |-> <<LogEntry("INFO", "Cloning", name)>>
                    \o (IF ok THEN <<LogEntry(OkLevel, "cloned", name)>>
                        ELSE <<>>),
           dirs |-> IF ok \/ leftover
                    THEN ds \cup WithParents(target_dir)
                    ELSE ds ]

(***************************************************************************)
(* install_dependency                                                      *)
(***************************************************************************)
WantsRequirementsFlagOnly(has_req, present) == has_req
\* has_req and (dep_path / 'requirements.txt').exists()
WantsRequirements(has_req, present) == has_req /\ present

InstallDependencyReturnChecked(syncOk, reqOk, edOk) == syncOk /\ edOk
\* False when the sync failed, True at the end whatever pip returned
InstallDependencyReturn(syncOk, reqOk, edOk) == syncOk

InstallCommandsEditableFirst(dep_name, dep_path, wantsReq, reqOk, edOk) ==
    << Cmd("pip install -e", dep_name, dep_path, "", "", NoCwd, TRUE, edOk) >>
    \o (IF wantsReq
        THEN << Cmd("pip install -r", dep_name,
                    dep_path \o <<"requirements.txt">>, "", "", NoCwd, TRUE,
                    reqOk) >>
        ELSE <<>>)
\* the pip commands of a dependency whose sync succeeded
InstallCommands(dep_name, dep_path, wantsReq, reqOk, edOk) ==
    (IF wantsReq
     THEN << Cmd("pip install -r", dep_name,
                 dep_path \o <<"requirements.txt">>, "", "", NoCwd, TRUE,
                 reqOk) >>
     ELSE <<>>)
    \o << Cmd("pip install -e", dep_name, dep_path, "", "", NoCwd, TRUE,
               edOk) >>

\* ok, leftover: as for CloneOrUpdate; reqAfter: whether the checkout a
\* successful sync brings holds a requirements.txt; reqOk, edOk: the exit
\* statuses of the two pip commands.
InstallDependency(dep_name, ds, rf, ok, leftover, reqAfter, reqOk, edOk) ==
    LET dep_config == AllDeps[dep_name]
        url == dep_config.url
        branch == Get(dep_config, "branch", "main")
        path == dep_config.path
        has_req == Get(dep_config, "requirements", FALSE)
        dep_path == LIBS_DIR \o path
        ds1 == MkdirParents(Parent(dep_path), ds)
        sync == CloneOrUpdate(dep_name, url, branch, dep_path, ds1, ok,
                              leftover)
        rf1 == IF ~sync.success THEN rf
               ELSE IF reqAfter THEN rf \cup {dep_path}
               ELSE rf \ {dep_path}
        wantsReq == WantsRequirements(has_req, dep_path \in rf1)
        pip == IF sync.success
               THEN InstallCommands(dep_name, dep_path, wantsReq, reqOk, edOk)
               ELSE <<>>
        ret == InstallDependencyReturn(sync.success, reqOk, edOk)
    IN  [ ret |-> ret,
          dirs |-> sync.dirs,
          reqFiles |-> rf1,
          cmds |-> sync.cmds \o pip,
          logs |-> <<LogEntry("INFO", "Processing dependency", dep_name)>>
                   \o sync.logs
                   \o (IF sync.success /\ wantsReq
                       THEN <<LogEntry("INFO", "Installing requirements",
                                       dep_name)>>
                       ELSE <<>>)
                   \o (IF sync.success
                       THEN << LogEntry("INFO", "Installing editable",
                                        dep_name),
                               LogEntry(OkLevel, "installed", dep_name) >>
                       ELSE <<>>),
          call |-> [ dep |-> dep_name, dep_path |-> dep_path,
                     existed |-> dep_path \in ds1, has_req |-> has_req,
                     present |-> dep_path \in rf1, ret |-> ret,
                     cmds |-> sync.cmds \o pip ] ]

(***************************************************************************)
(* deploy_project                                                          *)
(***************************************************************************)
\* REPOS_DIR / project_name, ROOT_DIR / project_name
ProjectPath(project_name) ==
    IF script = "flat" THEN REPOS_DIR \o <<project_name>>
    ELSE Root \o <<project_name>>

NoManifest == [exists |-> FALSE, lines |-> <<>>]

\* what pkg_file.exists() and the read of the file may find
ManifestStates(maxLen) ==
    {NoManifest}
    \cup { [exists |-> TRUE, lines |-> f] : f \in ManifestFiles(maxLen) }

DeployUnknownMkdirFirst(project_name, ds) ==
    [ ret |-> FALSE, cmds |-> <<>>,
      logs |-> <<LogEntry("ERROR", "Project not found", project_name)>>,
      dirs |-> Mkdir(REPOS_DIR, ds) ]
\* the validation branch: project_name is no key of config['projects']
DeployUnknown(project_name, ds) ==
    [ ret |-> FALSE, cmds |-> <<>>,
      logs |-> <<LogEntry("ERROR", "Project not found", project_name)>>,
      dirs |-> ds ]

DeployReturnChecked == \A i \in DOMAIN cmds : cmds[i].ok
\* the return at the end of deploy_project
DeployReturn == TRUE

ContinueUnlessFailed(q, ret) == IF ret THEN Tail(q) ELSE <<>>
\* main's loop goes on to the next project whatever deploy_project returned
Continue(q, ret) == Tail(q)

DeployedRecord(project_name, known, syncOk, ret) ==
    [project |-> project_name, known |-> known, syncOk |-> syncOk,
     ret |-> ret]

(***************************************************************************)
(* Initial state: a fresh checkout of the scripts, nothing deployed        *)
(***************************************************************************)
Init ==
    /\ script \in {"flat", "pkg"}
    /\ config \in ConfigNames
    /\ dirs = {Root}
    /\ reqFiles = {}
    /\ logFile = FALSE
    /\ pc = "idle"
    /\ runs = 0
    /\ mode = "none"
    /\ queue = <<>>
    /\ depIdx = 1
    /\ exitCode = 0
    /\ cmds = <<>>
    /\ logs = <<>>
    /\ before = {Root}
    /\ manifest = NoManifest
    /\ depCalls = <<>>
    /\ deployed = <<>>
    /\ depSyncs = <<>>

(***************************************************************************)
(* main                                                                    *)
(***************************************************************************)
\* the flags argparse accepts: --install-libs exists in "pkg" only
ArgSets ==
    [ list : BOOLEAN, install_libs : IF script = "pkg" THEN BOOLEAN ELSE {FALSE},
      all : BOOLEAN, project : ProjectArgs ]

\* the if/elif chain of main
Mode(a) ==
    IF a.list THEN "list"
    ELSE IF a.install_libs THEN "install_libs"
    ELSE IF a.all THEN "all"
    ELSE IF a.project # "" THEN "project"
    ELSE "help"

\* sys.exit(1) when orchestrator.yaml is missing
MainNoConfig ==
    /\ pc = "idle" /\ runs < MaxRuns
    /\ runs' = runs + 1
    /\ mode' = "none"
    /\ logs' = IF script = "flat"
               THEN <<LogEntry("ERROR", "Config file not found", "")>>
               ELSE <<>>
    /\ dirs' = LogDirs(logs', dirs)
    /\ logFile' = LogWritten(logs')
    /\ exitCode' = 1
    /\ cmds' = <<>> /\ depCalls' = <<>> /\ deployed' = <<>> /\ depSyncs' = <<>>
    /\ manifest' = NoManifest /\ before' = dirs
    /\ UNCHANGED <<script, config, reqFiles, pc, queue, depIdx>>

\* main up to its dispatch; list and help finish at once
MainStart(a) ==
    /\ pc = "idle" /\ runs < MaxRuns
    /\ runs' = runs + 1
    /\ mode' = Mode(a)
    /\ cmds' = <<>> /\ depCalls' = <<>> /\ deployed' = <<>> /\ depSyncs' = <<>>
    /\ manifest' = NoManifest /\ before' = dirs
    \* setup_logging: LOG_DIR.mkdir and the FileHandler opening the file
    /\ dirs' = IF script = "pkg" THEN Mkdir(LOG_DIR, dirs) ELSE dirs
    /\ logFile' = (logFile \/ script = "pkg")
    /\ depIdx' = 1
    /\ CASE Mode(a) = "all" ->
              /\ pc' = "main" /\ queue' = Config.projectOrder
              /\ logs' = <<>> /\ UNCHANGED exitCode
         [] Mode(a) = "project" ->
              /\ pc' = "main" /\ queue' = <<a.project>>
              /\ logs' = <<>> /\ UNCHANGED exitCode
         [] Mode(a) = "install_libs" /\ Config.dependencyOrder # <<>> ->
              /\ pc' = "libs" /\ queue' = Config.dependencyOrder
              /\ logs' = <<LogEntry("INFO", "Installing all libraries", "")>>
              /\ UNCHANGED exitCode
         [] Mode(a) = "install_libs" /\ Config.dependencyOrder = <<>> ->
              /\ pc' = "idle" /\ queue' = <<>>
              /\ logs' = << LogEntry("INFO", "Installing all libraries", ""),
                            LogEntry("INFO", "No dependencies to install", "") >>
              /\ exitCode' = 0
         [] OTHER ->
              /\ pc' = "idle" /\ queue' = <<>>
              /\ logs' = <<>> /\ exitCode' = 0
    /\ UNCHANGED <<script, config, reqFiles>>

\* deploy_project called with a name that is not configured
DeployStartUnknown ==
    /\ pc = "main" /\ queue # <<>>
    /\ Head(queue) \notin DOMAIN Projects
    /\ LET project_name == Head(queue)
           r == DeployUnknown(project_name, dirs)
       IN  /\ cmds' = r.cmds
           /\ logs' = r.logs
           /\ dirs' = LogDirs(r.logs, r.dirs)
           /\ logFile' = LogWritten(r.logs)
           /\ deployed' = Append(deployed, DeployedRecord(project_name, FALSE,
                                                          FALSE, r.ret))
           /\ queue' = Continue(queue, r.ret)
    /\ before' = dirs /\ depCalls' = <<>> /\ manifest' = NoManifest
    /\ UNCHANGED <<script, config, reqFiles, pc, runs, mode, depIdx, exitCode,
                   depSyncs>>

\* deploy_project up to the end of step 1 (the project's own sync)
DeployStart ==
    /\ pc = "main" /\ queue # <<>>
    /\ Head(queue) \in DOMAIN Projects
    /\ \E ok \in BOOLEAN, leftover \in BOOLEAN :
        LET project_name == Head(queue)
            project_config == Projects[project_name]
            url == project_config.url
            branch == Get(project_config, "branch", "main")
            deps == Get(project_config, "dependencies", <<>>)
            project_path == ProjectPath(project_name)
            ds0 == IF script = "flat" THEN Mkdir(REPOS_DIR, dirs) ELSE dirs
            sync == CloneOrUpdate(project_name, url, branch, project_path,
                                  ds0, ok, leftover)
            entries == << LogEntry("INFO", "Starting deployment", project_name),
                          LogEntry("INFO", "Step 1", project_name) >>
                       \o sync.logs
                       \o (IF sync.success /\ deps # <<>>
                           THEN <<LogEntry("INFO", "Step 2", project_name)>>
                           ELSE <<>>)
        IN  /\ cmds' = sync.cmds
            /\ logs' = entries
            /\ dirs' = LogDirs(entries, sync.dirs)
            /\ logFile' = LogWritten(entries)
            /\ IF sync.success
               THEN /\ pc' = "deps"
                    /\ UNCHANGED <<queue, deployed>>
               ELSE /\ pc' = "main"
                    /\ deployed' = Append(deployed,
                           DeployedRecord(project_name, TRUE, FALSE, FALSE))
                    /\ queue' = Continue(queue, FALSE)
    /\ depIdx' = 1
    /\ before' = dirs /\ depCalls' = <<>> /\ manifest' = NoManifest
    /\ UNCHANGED <<script, config, reqFiles, runs, mode, exitCode, depSyncs>>

\* the dependencies list of the project being deployed
CurDeps == Get(Projects[Head(queue)], "dependencies", <<>>)

\* the syncs among the commands cs, each as the dependency and the git command
RECURSIVE SyncsOf(_)
SyncsOf(cs) ==
    IF cs = <<>> THEN <<>>
    ELSE (IF Head(cs).tool \in GitTools
          THEN <<[name |-> Head(cs).name, tool |-> Head(cs).tool]>>
          ELSE <<>>) \o SyncsOf(Tail(cs))

\* the state after one call of install_dependency
Installed(r) ==
    /\ dirs' = LogDirs(r.logs, r.dirs)
    /\ logFile' = LogWritten(r.logs)
    /\ reqFiles' = r.reqFiles
    /\ cmds' = cmds \o r.cmds
    /\ depCalls' = Append(depCalls, r.call)
    /\ depSyncs' = depSyncs \o SyncsOf(r.cmds)

\* one turn of the dependency loop, on a name that resolves
DepStep ==
    /\ pc = "deps" /\ depIdx <= Len(CurDeps)
    /\ CurDeps[depIdx] \in DOMAIN AllDeps
    /\ \E ok \in BOOLEAN, leftover \in BOOLEAN, reqAfter \in BOOLEAN,
          reqOk \in BOOLEAN, edOk \in BOOLEAN :
        LET r == InstallDependency(CurDeps[depIdx], dirs, reqFiles, ok,
                                   leftover, reqAfter, reqOk, edOk)
        IN  /\ Installed(r)
            /\ logs' = logs \o <<LogEntry("INFO", "[i/n]", CurDeps[depIdx])>>
                            \o r.logs
    /\ depIdx' = depIdx + 1
    /\ UNCHANGED <<script, config, pc, runs, mode, queue, exitCode, before,
                   manifest, deployed>>

\* one turn of the dependency loop, on a name that does not resolve
DepSkip ==
    /\ pc = "deps" /\ depIdx <= Len(CurDeps)
    /\ CurDeps[depIdx] \notin DOMAIN AllDeps
    /\ depIdx' = depIdx + 1
    /\ UNCHANGED <<script, config, dirs, reqFiles, logFile, pc, runs, mode,
                   queue, exitCode, cmds, logs, before, manifest, depCalls,
                   deployed, depSyncs>>

\* step 3 of deploy_project and its return, on a manifest of maxLen lines at
\* most
ManifestRun(maxLen) ==
    /\ pc = "deps" /\ depIdx > Len(CurDeps)
    /\ \E m \in ManifestStates(maxLen) :
        LET project_name == Head(queue)
            lines == ManifestCommands(m.lines)
        IN  \E oks \in [1..Len(lines) -> BOOLEAN] :
              LET run == [ i \in 1..Len(lines) |->
                             Cmd("sh", project_name, lines[i], "", "",
                                 ProjectPath(project_name), FALSE, oks[i]) ]
                  entries ==
                      (IF m.exists
                       THEN <<LogEntry("INFO", "Step 3", project_name)>>
                            \o [ i \in 1..Len(lines) |->
                                   LogEntry("INFO", "> line", project_name) ]
                       ELSE <<>>)
                      \o <<LogEntry("INFO", "Deployment completed",
                                    project_name)>>
              IN  /\ manifest' = m
                  /\ cmds' = cmds \o run
                  /\ logs' = logs \o entries
                  /\ dirs' = LogDirs(entries, dirs)
                  /\ logFile' = LogWritten(entries)
                  /\ deployed' = Append(deployed,
                         DeployedRecord(project_name, TRUE, TRUE, DeployReturn))
                  /\ queue' = Continue(queue, DeployReturn)
    /\ pc' = "main"
    /\ depIdx' = 1
    /\ UNCHANGED <<script, config, reqFiles, runs, mode, exitCode, before,
                   depCalls, depSyncs>>

ManifestStep == ManifestRun(MaxLines)

\* one turn of the loop of install_all_libs
LibStep ==
    /\ pc = "libs" /\ queue # <<>>
    /\ \E ok \in BOOLEAN, leftover \in BOOLEAN, reqAfter \in BOOLEAN,
          reqOk \in BOOLEAN, edOk \in BOOLEAN :
        LET r == InstallDependency(Head(queue), dirs, reqFiles, ok, leftover,
                                   reqAfter, reqOk, edOk)
        IN  /\ Installed(r)
            /\ logs' = logs \o r.logs
    /\ queue' = Tail(queue)
    /\ UNCHANGED <<script, config, pc, runs, mode, depIdx, exitCode, before,
                   manifest, deployed>>

\* the loop of main or of install_all_libs is over: the process ends, and
\* with it the record of its last call
MainExit ==
    /\ pc \in {"main", "libs"} /\ queue = <<>>
    /\ pc' = "idle"
    /\ exitCode' = 0
    /\ LET entries == IF pc = "libs"
                      THEN <<LogEntry("INFO", "All libraries installed", "")>>
                      ELSE <<>>
       IN  /\ logs' = entries
           /\ dirs' = LogDirs(entries, dirs)
           /\ logFile' = LogWritten(entries)
    /\ cmds' = <<>> /\ depCalls' = <<>> /\ manifest' = NoManifest
    /\ before' = dirs
    /\ UNCHANGED <<script, config, reqFiles, runs, mode, queue, depIdx,
                   deployed, depSyncs>>

Next ==
    \/ MainNoConfig
    \/ \E a \in ArgSets : MainStart(a)
    \/ DeployStartUnknown
    \/ DeployStart
    \/ DepStep
    \/ DepSkip
    \/ ManifestStep
    \/ LibStep
    \/ MainExit

Spec == Init /\ [][Next]_vars

(***************************************************************************)
(* The manifest loop alone: a project without dependencies, longer files   *)
(***************************************************************************)
InitManifest == Init /\ config = "bare"

ManifestStepLong == ManifestRun(MaxManifestLines)

NextManifest ==
    \/ MainNoConfig
    \/ \E a \in ArgSets : MainStart(a)
    \/ DeployStartUnknown
    \/ DeployStart
    \/ ManifestStepLong
    \/ MainExit

SpecManifest == InitManifest /\ [][NextManifest]_vars

(***************************************************************************)
(* Vocabulary of the properties                                            *)
(***************************************************************************)
\* a deploy_project call has just returned: cmds, logs, depCalls, manifest
\* and before are those of that call
CallReturned == pc = "main" /\ deployed # <<>>
Last == deployed[Len(deployed)]

\* the loop of main (or of install_all_libs) has processed every item
LoopOver == pc \in {"main", "libs"} /\ queue = <<>>

DeployMode == mode \in {"all", "project"}

\* how many elements of the sequence s satisfy Test
Count(s, Test(_)) == Cardinality({ i \in DOMAIN s : Test(s[i]) })

ToolCount(cs, tool) == Count(cs, LAMBDA c : c.tool = tool)
SyncCount(cs) == Count(cs, LAMBDA c : c.tool \in GitTools)

\* the sync attempts of this invocation for the dependency d
SyncsFor(d) == Count(depSyncs, LAMBDA x : x.name = d)

DepsOf(project_name) == Get(Projects[project_name], "dependencies", <<>>)

\* the names of a dependencies list that resolve, in declaration order
Resolved(deps) == SelectSeq(deps, LAMBDA d : d \in DOMAIN AllDeps)

\* how often the projects whose own sync succeeded list the dependency d
RECURSIVE Listings(_, _)
Listings(d, calls) ==
    IF calls = <<>> THEN 0
    ELSE (IF Head(calls).syncOk
          THEN Count(DepsOf(Head(calls).project), LAMBDA x : x = d)
          ELSE 0) + Listings(d, Tail(calls))

(***************************************************************************)
(* C1                                                                      *)
(***************************************************************************)
\* C1 as claimed: when an --all invocation has deployed every project with
\* success, every dependency of the configuration has had exactly one sync
\* attempt.
C1_OneSyncPerInvocation ==
    (LoopOver /\ mode = "all" /\ \A i \in DOMAIN deployed : deployed[i].ret)
        => \A d \in DOMAIN AllDeps : SyncsFor(d) = 1

\* C1 amended: every call of install_dependency makes exactly one sync
\* attempt, a pull if the target directory exists when it is checked and a
\* clone otherwise; so an invocation syncs a dependency once under
\* --install-libs, and under --project/--all once per listing of it in the
\* dependencies lists of the projects whose own sync succeeded.
C1_OneSyncPerCall ==
    /\ \A i \in DOMAIN depCalls :
         LET call == depCalls[i]
         IN  /\ SyncCount(call.cmds) = 1
             /\ call.cmds[1].tool =
                    (IF call.existed THEN "git pull" ELSE "git clone")
    /\ (LoopOver /\ mode = "install_libs")
         => \A d \in DOMAIN AllDeps : SyncsFor(d) = 1
    /\ (LoopOver /\ DeployMode)
         => \A d \in DOMAIN AllDeps : SyncsFor(d) = Listings(d, deployed)

\* an --all invocation that synced libx three times (app lists it twice, web
\* once), by clone and by pull
C1_Witness ==
    /\ LoopOver /\ mode = "all" /\ config = "shared"
    /\ SyncsFor("libx") = 3 /\ SyncsFor("liby") = 0
    /\ \E i, j \in DOMAIN depSyncs :
         depSyncs[i].tool = "git clone" /\ depSyncs[j].tool = "git pull"

(***************************************************************************)
(* C2                                                                      *)
(***************************************************************************)
\* C2 as claimed: deploy_project of a name that is not configured returns
\* failure, creates no directory, writes no file and spawns no subprocess.
C2_UnknownNoSideEffect ==
    (CallReturned /\ ~Last.known)
        => /\ ~Last.ret
           /\ dirs = before
           /\ logs = <<>>
           /\ cmds = <<>>

\* C2 amended: deploy_project of a name that is not configured returns
\* failure, spawns no subprocess and creates no directory but the log
\* directory: its one effect is the ERROR entry appended to the log file.
C2_UnknownOnlyLogs ==
    (CallReturned /\ ~Last.known)
        => /\ ~Last.ret
           /\ cmds = <<>>
           /\ depCalls = <<>>
           /\ before \subseteq dirs
           /\ dirs \ before \subseteq {LOG_DIR}
           /\ logs = <<LogEntry("ERROR", "Project not found", Last.project)>>
           /\ logFile

\* an unknown project was refused and the log directory came into being
C2_Witness ==
    /\ CallReturned /\ ~Last.known
    /\ LOG_DIR \notin before /\ LOG_DIR \in dirs

(***************************************************************************)
(* C3                                                                      *)
(***************************************************************************)
RequirementsAttempted(call) == ToolCount(call.cmds, "pip install -r") > 0

\* C3 as claimed: in every run of install_dependency, pip install -r is
\* attempted iff the requirements flag is true and requirements.txt is
\* present in the target directory.
C3_RequirementsIffFlagAndFile ==
    \A i \in DOMAIN depCalls :
        RequirementsAttempted(depCalls[i])
            <=> (depCalls[i].has_req /\ depCalls[i].present)

\* C3 amended: in every run of install_dependency, pip install -r is
\* attempted (once) iff the sync succeeded, the requirements flag is true and
\* requirements.txt is present in the target directory after the sync; when
\* the sync succeeded and the flag or the file is absent, no attempt is made
\* and the call still returns True.
C3_RequirementsIffSyncedFlagAndFile ==
    \A i \in DOMAIN depCalls :
        LET call == depCalls[i]
            wanted == call.cmds[1].ok /\ call.has_req /\ call.present
        IN  /\ RequirementsAttempted(call) <=> wanted
            /\ ToolCount(call.cmds, "pip install -r") <= 1
            /\ (call.cmds[1].ok /\ ~wanted) => call.ret

\* one call installed the requirements, one skipped them for want of the
\* file, though its flag is set
C3_Witness ==
    \E i, j \in DOMAIN depCalls :
        /\ RequirementsAttempted(depCalls[i])
        /\ depCalls[j].cmds[1].ok /\ depCalls[j].has_req
        /\ ~depCalls[j].present /\ ~RequirementsAttempted(depCalls[j])

(***************************************************************************)
(* C4 (a property of SpecManifest)                                         *)
(***************************************************************************)
\* the shell lines the current call ran, in the order it ran them
ShellCmds == SelectSeq(cmds, LAMBDA c : c.tool = "sh")
ShellLines == [ i \in 1..Len(ShellCmds) |-> ShellCmds[i].target ]

\* a line of the file without its terminator
Content(line) ==
    IF line # <<>> /\ line[Len(line)] = "\n"
    THEN SubSeq(line, 1, Len(line) - 1)
    ELSE line

\* a line the claim says is never executed: empty, or starting with '#'
EmptyOrHash(line) == Content(line) = <<>> \/ Head(Content(line)) = "#"

\* a line that is empty or starts with '#' once its surrounding whitespace
\* is stripped
BlankOrComment(line) == Strip(line) = <<>> \/ Head(Strip(line)) = "#"

\* the lines of a file that pass a filter, stripped, in file order
Kept(file, Skip(_)) ==
    LET sel == SelectSeq(file, LAMBDA l : ~Skip(l))
    IN  [ i \in 1..Len(sel) |-> Strip(sel[i]) ]

ManifestRead == CallReturned /\ Last.syncOk /\ manifest.exists

\* C4 as claimed: the lines that are empty or start with '#' are never
\* executed, every other line is executed exactly once, in file order, in the
\* project's root.
C4_EmptyOrHashSkipped ==
    ManifestRead
        => /\ ShellLines = Kept(manifest.lines, EmptyOrHash)
           /\ \A i \in DOMAIN ShellCmds :
                ShellCmds[i].cwd = ProjectPath(Last.project)

\* C4 amended: the lines that are empty or start with '#' after their
\* leading and trailing whitespace is stripped are never executed; every
\* other line is executed, stripped, exactly once, in file order, in the
\* project's root, whatever the exit status of the lines before it.
C4_BlankOrCommentSkipped ==
    ManifestRead
        => /\ ShellLines = Kept(manifest.lines, BlankOrComment)
           /\ \A i \in DOMAIN ShellCmds :
                ShellCmds[i].cwd = ProjectPath(Last.project)

\* a command that failed, an indented comment that was skipped, and a
\* second command that ran all the same
C4_Witness ==
    /\ ManifestRead
    /\ manifest.lines = << <<"a", "\n">>, <<" ", "#", "a", "\n">>,
                           <<" ", "b", "\n">> >>
    /\ ShellLines = << <<"a">>, <<"b">> >>
    /\ ~ShellCmds[1].ok

(***************************************************************************)
(* C5                                                                      *)
(***************************************************************************)
\* C5: for a configured project, deploy_project returns the outcome of the
\* project's own sync (the first command of the call), whatever the outcome
\* of any dependency sync, pip install or manifest command.
C5_ReturnIsProjectSync ==
    (CallReturned /\ Last.known)
        => /\ cmds # <<>>
           /\ cmds[1].tool \in GitTools /\ cmds[1].name = Last.project
           /\ Last.ret = cmds[1].ok

\* a deployment that reported success though a dependency sync, an editable
\* install and a manifest command failed
C5_Witness ==
    /\ CallReturned /\ Last.known /\ Last.ret
    /\ \E i, j, k \in DOMAIN cmds :
         /\ i > 1 /\ cmds[i].tool \in GitTools /\ ~cmds[i].ok
         /\ cmds[j].tool = "pip install -e" /\ ~cmds[j].ok
         /\ cmds[k].tool = "sh" /\ ~cmds[k].ok

(***************************************************************************)
(* C6                                                                      *)
(***************************************************************************)
\* the levels a report of a failure is written with
FailureLevels == {"ERROR", "WARN", "WARNING"}

\* C6 as claimed: every clone or pull that failed has a log entry reporting
\* the failure, and an invocation in which a project's sync failed exits 0.
C6_SyncFailureLogged ==
    /\ \A i \in DOMAIN cmds :
         (cmds[i].tool \in GitTools /\ ~cmds[i].ok)
            => \E j \in DOMAIN logs :
                 /\ logs[j].level \in FailureLevels
                 /\ logs[j].about = cmds[i].name
    /\ (pc = "idle" /\ \E i \in DOMAIN deployed :
                          deployed[i].known /\ ~deployed[i].syncOk)
         => exitCode = 0

(***************************************************************************)
(* C7                                                                      *)
(***************************************************************************)
\* a deploy_project call of a configured project is under way or has just
\* returned: cmds[1] is the sync of the project
InDeployment == DeployMode /\ cmds # <<>>

\* a deployment that found the project's directory in place
Redeployment == InDeployment /\ ProjectPath(cmds[1].name) \in before

\* C7: a deployment of a project whose directory exists pulls the project's
\* configured branch in that directory and clones nothing of that name, and
\* returns success when the pull succeeds; and a project's directory, once
\* there, stays: every later deployment of the project pulls.
C7_ExistingDirectoryPulls ==
    /\ [](Redeployment =>
            LET project_name == cmds[1].name
            IN  /\ cmds[1].tool = "git pull"
                /\ cmds[1].branch = Get(Projects[project_name], "branch", "main")
                /\ cmds[1].cwd = ProjectPath(project_name)
                /\ \A i \in DOMAIN cmds :
                     cmds[i].tool = "git clone" => cmds[i].name # project_name
                /\ (CallReturned /\ cmds[1].ok) => Last.ret)
    /\ [][ \A p \in DOMAIN Projects :
             ProjectPath(p) \in dirs => ProjectPath(p) \in dirs' ]_vars

\* app, whose directory an earlier invocation made, was deployed again by a
\* pull of dev that succeeded
C7_Witness ==
    /\ Redeployment /\ CallReturned /\ Last.ret
    /\ cmds[1].name = "app" /\ cmds[1].tool = "git pull"
    /\ cmds[1].branch = "dev" /\ cmds[1].ok
    /\ runs = 2

(***************************************************************************)
(* C8                                                                      *)
(***************************************************************************)
\* whether the commands cs are, for each name of names in turn, the sync of
\* that dependency and, if it succeeded, its requirements install (maybe)
\* and its editable install, followed by shell lines only
RECURSIVE InOrder(_, _)
InOrder(cs, names) ==
    IF names = <<>>
    THEN \A i \in DOMAIN cs : cs[i].tool = "sh"
    ELSE /\ cs # <<>>
         /\ cs[1].tool \in GitTools
         /\ cs[1].name = Head(names)
         /\ IF ~cs[1].ok
            THEN InOrder(Tail(cs), Tail(names))
            ELSE LET rest == Tail(cs)
                     after == IF rest # <<>> /\ rest[1].tool = "pip install -r"
                                 /\ rest[1].name = Head(names)
                              THEN Tail(rest)
                              ELSE rest
                 IN  /\ after # <<>>
                     /\ after[1].tool = "pip install -e"
                     /\ after[1].name = Head(names)
                     /\ InOrder(Tail(after), Tail(names))

\* C8: a deployment whose project sync succeeded has issued the project's
\* sync, then for each resolving name of the dependencies list, in
\* declaration order, that dependency's commands in order, then the
\* manifest's commands; a name that does not resolve has no command, and the
\* deployment completes.
C8_CommandOrder ==
    (CallReturned /\ Last.syncOk)
        => /\ cmds[1].tool \in GitTools /\ cmds[1].name = Last.project
           /\ InOrder(Tail(cmds), Resolved(DepsOf(Last.project)))
           /\ \A i \in DOMAIN cmds :
                cmds[i].name \in {Last.project} \cup DOMAIN AllDeps
           /\ Last.ret

\* app deployed: libx synced, requirements and editable install, the
\* unresolved ghost skipped, libx again, then a manifest command
C8_Witness ==
    /\ CallReturned /\ Last.syncOk /\ Last.project = "app"
    /\ "ghost" \in { DepsOf("app")[i] : i \in DOMAIN DepsOf("app") }
    /\ Len(cmds) >= 6
    /\ cmds[2].tool \in GitTools /\ cmds[3].tool = "pip install -r"
    /\ cmds[4].tool = "pip install -e" /\ cmds[5].tool \in GitTools
    /\ cmds[Len(cmds)].tool = "sh"

(***************************************************************************)
(* C9                                                                      *)
(***************************************************************************)
\* the dependencies the calls of install_dependency were made for, in order
CalledDeps == [ i \in 1..Len(depCalls) |-> depCalls[i].dep ]

\* C9: a call of install_dependency whose sync failed issued no pip command
\* and returned False; one whose sync succeeded issued the editable install
\* exactly once and returned True, whatever pip exited with; and the caller
\* went through every dependency all the same.
C9_FailedSyncSkipsInstall ==
    /\ \A i \in DOMAIN depCalls :
         LET call == depCalls[i]
         IN  IF call.cmds[1].ok
             THEN /\ ToolCount(call.cmds, "pip install -e") = 1
                  /\ call.ret
             ELSE /\ Len(call.cmds) = 1
                  /\ ~call.ret
    /\ (CallReturned /\ Last.syncOk)
         => CalledDeps = Resolved(DepsOf(Last.project))
    /\ (LoopOver /\ mode = "install_libs")
         => CalledDeps = Config.dependencyOrder

\* after a dependency whose sync failed, the next one was installed, its
\* editable install failing, and the call returned True
C9_Witness ==
    /\ Len(depCalls) = 2
    /\ ~depCalls[1].cmds[1].ok /\ ~depCalls[1].ret
    /\ depCalls[2].cmds[1].ok /\ depCalls[2].ret
    /\ \E i \in DOMAIN depCalls[2].cmds :
         /\ depCalls[2].cmds[i].tool = "pip install -e"
         /\ ~depCalls[2].cmds[i].ok

(***************************************************************************)
(* C10                                                                     *)
(***************************************************************************)
DeployedProjects == [ i \in 1..Len(deployed) |-> deployed[i].project ]

\* C10: in --all mode a project whose own sync failed has no dependency
\* installed and no manifest command run, and when the loop is over every
\* configured project has been deployed exactly once, in configuration
\* order.
C10_FailedProjectDoesNotStopBatch ==
    mode = "all"
        => /\ (CallReturned /\ Last.known /\ ~Last.syncOk)
                => /\ Len(cmds) = 1
                   /\ depCalls = <<>>
                   /\ ~manifest.exists
           /\ LoopOver => DeployedProjects = Config.projectOrder

\* app's sync failed and web was deployed after it
C10_Witness ==
    /\ mode = "all" /\ LoopOver /\ Len(deployed) = 2
    /\ ~deployed[1].syncOk /\ deployed[2].ret

====
